---- MODULE Spec2Model ----
(***************************************************************************)
(* A model of the project discovery / config reconciliation core of        *)
(* tauri-action: src/src/utils.ts and src/src/init-project.ts.             *)
(*                                                                         *)
(* Conventions.                                                            *)
(*  - A JavaScript string is a sequence of tokens (a token is a run of     *)
(*    characters that the code never splits); "" is << >>.                 *)
(*  - A JavaScript value read from JSON / JSON5 / TOML is tagged:          *)
(*    Undefined, Null, NaN, Str(s) or Obj(f) with f a function from keys   *)
(*    to values.                                                           *)
(*  - A file is Absent or a text [fmt, val]: fmt says which parsers accept *)
(*    the text ("json": strict JSON and JSON5; "json5": JSON5 only;        *)
(*    "invalid": neither) and val is the value the text denotes.           *)
(*  - A call ends as Ok(v) (return), Throw(e) (exception / rejected        *)
(*    promise) or Exit(n) (process.exit).                                  *)
(***************************************************************************)
EXTENDS Integers, Sequences, FiniteSets, TLC

VARIABLES
  pc,          \* position of the operation under way
  args,        \* its arguments
  ret,         \* how it ended: Ok / Throw / Exit, or Pending
  log,         \* the file reads, file writes and external commands it made, in order
  tree,        \* filesystem: directories under root holding a tauri.conf.json, in glob order
  gitignore,   \* filesystem: Absent, or the set of rules of <root>/.gitignore
  confFile,    \* filesystem: the text of tauri.conf.json
  json5File,   \* filesystem: the text of the sibling tauri.conf.json5
  inConfFile,  \* filesystem: the text of the file an explicit config path names
  cargoFile,   \* filesystem: the text of <tauriDir>/Cargo.toml
  versionFile, \* filesystem: the text of the .json file package.version may point to
  packageFile, \* filesystem: the text of <root>/package.json
  locals,      \* initProject: packageJson and tauriPath, taken before the init command
  env,         \* process.env.CARGO_TARGET_DIR: Undefined or a string
  levels,      \* filesystem along the upward walk: per depth, the Cargo files found there
  dir,         \* the walk's current directory
  steps        \* the number of loop iterations the walk has made

vars == <<pc, args, ret, log, tree, gitignore, confFile, json5File, inConfFile,
          cargoFile, versionFile, packageFile, locals, env, levels, dir, steps>>

fsVars == <<tree, gitignore, confFile, json5File, inConfFile, cargoFile,
            versionFile, packageFile>>

walkVars == <<env, levels, dir, steps>>

-----------------------------------------------------------------------------
(* JavaScript values *)

Undefined == [t |-> "undefined"]

Null == [t |-> "null"]

NaN == [t |-> "NaN"]

Str(s) == [t |-> "str", s |-> s]

Obj(f) == [t |-> "obj", o |-> f]

EmptyObj == Obj(<< >>)

\* ToBoolean: undefined, null, NaN and "" are falsy; objects and other strings truthy
Truthy(v) == CASE v.t = "str" -> v.s # << >>
               [] v.t = "obj" -> TRUE
               [] OTHER -> FALSE

\* a || b
OrElse(a, b) == IF Truthy(a) THEN a ELSE b

\* o.k, and o?.k : undefined for a missing key and through an undefined / null o.
\* (Every access the code makes on a possibly undefined object is guarded or
\*  optional-chained, except the ones modelled as a TypeError where they occur.)
Get(o, k) == IF o.t = "obj" /\ k \in DOMAIN o.o THEN o.o[k] ELSE Undefined

\* { ...o, k: v }
SpreadSet(o, k, v) ==
  LET f == IF o.t = "obj" THEN o.o ELSE << >>
  IN  Obj([x \in (DOMAIN f) \cup {k} |-> IF x = k THEN v ELSE f[x]])

\* o.k = v on an object
Assign(o, k, v) == SpreadSet(o, k, v)

-----------------------------------------------------------------------------
(* Outcomes, files, parsers *)

Pending == [kind |-> "pending"]

Ok(v) == [kind |-> "return", val |-> v]

Throw(e) == [kind |-> "throw", err |-> e]

Exit(n) == [kind |-> "exit", code |-> n]

Absent == [fmt |-> "absent"]

Text(fmt, v) == [fmt |-> fmt, val |-> v]

StrictError == "SyntaxError: JSON.parse"

NoEntry(name) == <<"ENOENT", name>>

existsSync(file) == file # Absent

readFileSync(file, name) == IF file = Absent THEN Throw(NoEntry(name)) ELSE Ok(file)

JSONparse(text) == IF text.fmt = "json" THEN Ok(text.val) ELSE Throw(StrictError)

JSON5parse(text) ==
  IF text.fmt \in {"json", "json5"} THEN Ok(text.val) ELSE Throw("SyntaxError: JSON5.parse")

\* JSON.stringify's value: keys holding undefined are dropped, NaN becomes null.
RECURSIVE Serialise(_)
Serialise(v) ==
  CASE v.t = "obj" ->
         LET keep == {k \in DOMAIN v.o : v.o[k] # Undefined}
         IN  Obj([k \in keep |-> Serialise(v.o[k])])
    [] v.t = "NaN" -> Null
    [] OTHER -> v

JSONstringify(v) == Text("json", Serialise(v))

-----------------------------------------------------------------------------
(* Bounds of the inputs *)

\* longest glob listing of tauri.conf.json matches
MaxMatches == 2

\* directories under root (as segment sequences) that may hold a tauri.conf.json
CandidateDirs ==
  { << >>, <<"src-tauri">>, <<"app", "src-tauri">>, <<"node_modules", "pkg">>,
    <<"target", "debug">>, <<"build-output">> }

\* the .gitignore files considered: none, or a set of directory-name rules
GitignoreFiles ==
  {Absent} \cup {[fmt |-> "gitignore", rules |-> r] :
                   r \in SUBSET {"build-output", "target", "src-tauri"}}

\* sequences without repetition over S, of length at most n
RECURSIVE Listings(_, _)
Listings(S, n) ==
  IF n = 0 THEN {<< >>}
  ELSE LET shorter == Listings(S, n - 1)
       IN  shorter \cup {Append(l, d) : l \in {m \in shorter : Len(m) = n - 1},
                                         d \in S}

Distinct(l) == \A i, j \in 1..Len(l) : i # j => l[i] # l[j]

Trees == {l \in Listings(CandidateDirs, MaxMatches) : Distinct(l)}

-----------------------------------------------------------------------------
(* utils.ts: getPackageJson, getTauriDir *)

getPackageJson(file) ==
  IF existsSync(file)
    THEN LET parsed == JSONparse(file) IN
         IF parsed.kind = "throw" THEN parsed ELSE Ok(parsed.val)
    ELSE Ok(Null)

DefaultRules == {"node_modules", "target"}

\* ignore().add(...): the rules in force
ignoreRules(gi) == IF existsSync(gi) THEN gi.rules ELSE DefaultRules

\* ignore: a rule that is a bare name excludes every path with a segment of that name
Ignores(rules, path) == \E i \in 1..Len(path) : path[i] \in rules

\* the path of the tauri.conf.json in directory d, relative to root
ConfPath(d) == Append(d, "tauri.conf.json")

\* globSync('**/tauri.conf.json', {cwd: root, ignore}): the matches not ignored, in
\* traversal order
globSync(tr, rules) ==
  LET Kept(d) == ~Ignores(rules, ConfPath(d))
      dirs == SelectSeq(tr, Kept)
  IN  [i \in 1..Len(dirs) |-> ConfPath(dirs[i])]

\* a path value: its segments below root
Path(segs) == [t |-> "path", segs |-> segs]

\* resolve(root, p, '..') for a path p relative to root
ResolveParent(p) == Path(SubSeq(p, 1, Len(p) - 1))

\* mutant: the built-in rules are used even when a .gitignore exists
getTauriDirMutDefaults(tr, gi) ==
  LET paths == globSync(tr, DefaultRules)
  IN  IF paths # << >> THEN ResolveParent(paths[1]) ELSE Null

getTauriDir(tr, gi) ==
  LET paths == globSync(tr, ignoreRules(gi))
  IN  IF paths # << >> THEN ResolveParent(paths[1]) ELSE Null

-----------------------------------------------------------------------------
(* utils.ts: _getJson5Config, getConfig *)

getJson5Config(contents) ==
  LET parsed == JSON5parse(contents)
  IN  IF parsed.kind = "return" THEN parsed.val ELSE Null

\* getConfig(path): conf is the file at path, sibling the tauri.conf.json5 beside it.
\* [out: the outcome, reads: the files read]
getConfig(conf, confName, sibling) ==
  LET contents == readFileSync(conf, confName) IN
  IF contents.kind = "throw" THEN [out |-> contents, reads |-> <<confName>>]
  ELSE
    LET strict == JSONparse(contents.val) IN
    IF strict.kind = "return" THEN [out |-> strict, reads |-> <<confName>>]
    ELSE
      LET first == getJson5Config(contents.val) IN
      IF first # Null
        THEN [out |-> IF Truthy(first) THEN Ok(first) ELSE strict,
              reads |-> <<confName>>]
        ELSE
          LET other == readFileSync(sibling, "tauri.conf.json5") IN
          IF other.kind = "throw"
            THEN [out |-> other, reads |-> <<confName, "tauri.conf.json5">>]
            ELSE LET second == getJson5Config(other.val) IN
                 [out |-> IF Truthy(second) THEN Ok(second) ELSE strict,
                  reads |-> <<confName, "tauri.conf.json5">>]

-----------------------------------------------------------------------------
(* Idle parts of the state, for the specifications that do not use them *)

NoFiles ==
  /\ confFile = Absent /\ json5File = Absent /\ inConfFile = Absent
  /\ cargoFile = Absent /\ versionFile = Absent /\ packageFile = Absent

NoTree == tree = << >> /\ gitignore = Absent

NoWalk == env = Undefined /\ levels = << >> /\ dir = << >> /\ steps = 0

NoLocals == locals = << >>

-----------------------------------------------------------------------------
(* getTauriDir(root) on every tree and .gitignore within the bounds *)

InitTauriDir ==
  /\ pc = "call" /\ args = << >> /\ ret = Pending /\ log = << >>
  /\ tree \in Trees
  /\ gitignore \in GitignoreFiles
  /\ NoFiles /\ NoLocals /\ NoWalk

CallGetTauriDir ==
  /\ pc = "call"
  /\ ret' = Ok(getTauriDir(tree, gitignore))
  /\ pc' = "done"
  /\ UNCHANGED <<args, log, fsVars, locals, walkVars>>

NextTauriDir == CallGetTauriDir

SpecTauriDir == InitTauriDir /\ [][NextTauriDir]_vars

\* the rules the claim calls active
ActiveRules == IF gitignore # Absent THEN gitignore.rules ELSE DefaultRules

NonIgnored ==
  SelectSeq(tree, LAMBDA d : /\ "tauri.conf.json" \notin ActiveRules
                             /\ \A i \in 1..Len(d) : d[i] \notin ActiveRules)

\* C8: getTauriDir never returns a directory whose tauri.conf.json lies under a path
\* the active ignore rules exclude (the root .gitignore's rules when that file
\* exists, else node_modules and target); it returns the parent directory of the
\* first non-ignored match, and returns null without throwing when there is none.
C8_NeverIgnored ==
  pc = "done" =>
    /\ ret.kind = "return"
    /\ IF NonIgnored = << >> THEN ret.val = Null ELSE ret.val = Path(NonIgnored[1])
    /\ ret.val # Null =>
         /\ \E i \in 1..Len(tree) : Path(tree[i]) = ret.val
         /\ \A i \in 1..Len(ret.val.segs) : ret.val.segs[i] \notin ActiveRules

\* C8's case: a match under an excluded directory is listed first and skipped
C8_Witness ==
  /\ pc = "done"
  /\ Len(tree) = 2
  /\ gitignore # Absent
  /\ \E i \in 1..Len(tree[1]) : tree[1][i] \in gitignore.rules
  /\ ret.val = Path(tree[2])

-----------------------------------------------------------------------------
(* getConfig(path) on every pair of config file and sibling within the bounds *)

\* an object literal: the keys of f whose value is not undefined
MkObj(f) == Obj([k \in {x \in DOMAIN f : f[x] # Undefined} |-> f[k]])

SampleConfigs ==
  { EmptyObj,
    MkObj([package |-> MkObj([productName |-> Str(<<"App">>), version |-> Str(<<"1.0.0">>)])]),
    MkObj([tauri |-> MkObj([bundle |-> MkObj([identifier |-> Str(<<"com.app">>)])])]),
    MkObj([package |-> MkObj([version |-> Str(<<"2.0.0">>)]), build |-> Str(<<"dist">>)]) }

\* texts: strict JSON (of an object, or of null), JSON5-only (of an object, or of
\* NaN), and text neither parser accepts
ConfTexts ==
  {Text("json", v) : v \in SampleConfigs \cup {Null}}
    \cup {Text("json5", v) : v \in SampleConfigs \cup {NaN}}
    \cup {Text("invalid", Undefined)}

InitConfig ==
  /\ pc = "call" /\ args = <<"tauri.conf.json">> /\ ret = Pending /\ log = << >>
  /\ confFile \in ConfTexts
  /\ json5File \in {Absent} \cup ConfTexts
  /\ inConfFile = Absent /\ cargoFile = Absent /\ versionFile = Absent
  /\ packageFile = Absent
  /\ NoTree /\ NoLocals /\ NoWalk

CallGetConfig ==
  /\ pc = "call"
  /\ LET r == getConfig(confFile, args[1], json5File) IN
       /\ ret' = r.out
       /\ log' = r.reads
  /\ pc' = "done"
  /\ UNCHANGED <<args, fsVars, locals, walkVars>>

NextConfig == CallGetConfig

SpecConfig == InitConfig /\ [][NextConfig]_vars

StrictFails(file) == file.fmt # "json"

RelaxedFails(file) == file = Absent \/ file.fmt \notin {"json", "json5"}

\* C2: when the strict parse, the relaxed parse of the same contents and the relaxed
\* parse of the sibling tauri.conf.json5 all fail (the sibling being absent or
\* unreadable included), the error that reaches the caller is the original
\* strict-JSON parse error and no other.
C2_AllFailRethrowsStrictError ==
  (pc = "done" /\ StrictFails(confFile) /\ RelaxedFails(confFile)
     /\ RelaxedFails(json5File))
    => ret = Throw(StrictError)

-----------------------------------------------------------------------------
(* utils.ts: getInfo *)

parseToml(text) == IF text.fmt = "toml" THEN Ok(text.val) ELSE Throw("TomlError")

\* s.endsWith(suffix), for a suffix that is one token
EndsWith(v, token) == v.t = "str" /\ Len(v.s) > 0 /\ v.s[Len(v.s)] = token

\* s.replace(/ /g, '-')
HyphenateSpaces(v) == Str([i \in 1..Len(v.s) |-> IF v.s[i] = " " THEN "-" ELSE v.s[i]])

TypeError == "TypeError"

Info(tauriPath, name, version, wixLanguage) ==
  [tauriPath |-> tauriPath, name |-> name, version |-> version,
   wixLanguage |-> wixLanguage]

\* line 199: if (!(name && version))
NeedsManifest(name, version) == ~(Truthy(name) /\ Truthy(version))

\* mutant: the manifest value wins over the one already set
FillFromManifestMutReversed(current, fromManifest) == OrElse(fromManifest, current)

\* lines 204-205: name = name || cargoManifest.package.name
FillFromManifest(current, fromManifest) == OrElse(current, fromManifest)

\* lines 190-198: name and version as tauri.conf.json gives them.
\* [out: Ok(<<name, version>>) or a throw, reads]
FromConfig(config) ==
  LET package == Get(config, "package") IN
  IF ~Truthy(package)
    THEN [out |-> Ok(<<Undefined, Undefined>>), reads |-> << >>]
    ELSE
      LET name == Get(package, "productName")
          version == Get(package, "version")
      IN
      IF EndsWith(version, ".json")
        THEN
          LET contents == readFileSync(versionFile, "version.json") IN
          IF contents.kind = "throw"
            THEN [out |-> contents, reads |-> <<"version.json">>]
            ELSE
              LET parsed == JSONparse(contents.val) IN
              [out |-> IF parsed.kind = "throw" THEN parsed
                       ELSE IF parsed.val.t # "obj" THEN Throw(TypeError)
                       ELSE Ok(<<name, Get(parsed.val, "version")>>),
               reads |-> <<"version.json">>]
        ELSE [out |-> Ok(<<name, version>>), reads |-> << >>]

\* lines 199-206: the missing ones filled from Cargo.toml
FromManifest(name, version) ==
  IF ~NeedsManifest(name, version)
    THEN [out |-> Ok(<<name, version>>), reads |-> << >>]
    ELSE
      LET contents == readFileSync(cargoFile, "Cargo.toml") IN
      IF contents.kind = "throw"
        THEN [out |-> contents, reads |-> <<"Cargo.toml">>]
        ELSE
          LET parsed == parseToml(contents.val) IN
          [out |-> IF parsed.kind = "throw" THEN parsed
                   ELSE IF Get(parsed.val, "package").t # "obj" THEN Throw(TypeError)
                   ELSE Ok(<<FillFromManifest(name,
                                Get(Get(parsed.val, "package"), "name")),
                             FillFromManifest(version,
                                Get(Get(parsed.val, "package"), "version"))>>),
           reads |-> <<"Cargo.toml">>]

\* lines 207-209
WixLanguage(config) ==
  LET language == Get(Get(Get(Get(Get(config, "tauri"), "bundle"), "windows"), "wix"),
                      "language")
  IN  IF Truthy(language) THEN language ELSE Str(<<"en-US">>)

\* lines 183-221: a native project is present
getInfoNative(tauriDir, inConfigPath) ==
  LET loaded == IF inConfigPath # Null
                  THEN getConfig(inConfFile, "inConfigPath", json5File)
                  ELSE getConfig(confFile, "tauri.conf.json", json5File)
  IN
  IF loaded.out.kind = "throw" THEN loaded
  ELSE IF loaded.out.val.t # "obj" THEN [out |-> Throw(TypeError), reads |-> loaded.reads]
  ELSE
    LET config == loaded.out.val
        fromConfig == FromConfig(config)
    IN
    IF fromConfig.out.kind = "throw"
      THEN [out |-> fromConfig.out, reads |-> loaded.reads \o fromConfig.reads]
      ELSE
        LET filled == FromManifest(fromConfig.out.val[1], fromConfig.out.val[2])
            reads == loaded.reads \o fromConfig.reads \o filled.reads
        IN
        IF filled.out.kind = "throw" THEN [out |-> filled.out, reads |-> reads]
        ELSE IF ~(Truthy(filled.out.val[1]) /\ Truthy(filled.out.val[2]))
          THEN [out |-> Exit(1), reads |-> reads]
          ELSE [out |-> Ok(Info(tauriDir, filled.out.val[1], filled.out.val[2],
                                WixLanguage(config))),
                reads |-> reads]

\* lines 222-234: no native project
getInfoPlain ==
  LET packageJson == getPackageJson(packageFile)
      reads == IF existsSync(packageFile) THEN <<"package.json">> ELSE << >>
  IN
  IF packageJson.kind = "throw" THEN [out |-> packageJson, reads |-> reads]
  ELSE IF ~Truthy(packageJson.val)
    THEN [out |-> Ok(Info(Null, Str(<<"app">>), Str(<<"0.1.0">>), Str(<<"en-US">>))),
          reads |-> reads]
    ELSE
      LET named == OrElse(Get(packageJson.val, "displayName"),
                          Get(packageJson.val, "name"))
      IN
      IF named.t # "str" THEN [out |-> Throw(TypeError), reads |-> reads]
      ELSE [out |-> Ok(Info(Null, HyphenateSpaces(named),
                            Get(packageJson.val, "version"), Str(<<"en-US">>))),
            reads |-> reads]

getInfo(inConfigPath) ==
  LET tauriDir == getTauriDir(tree, gitignore)
  IN  IF tauriDir # Null THEN getInfoNative(tauriDir, inConfigPath) ELSE getInfoPlain

-----------------------------------------------------------------------------
(* getInfo(root, inConfigPath) on the projects within the bounds *)

S(token) == Str(<<token>>)

\* a version that points to a manifest: "version.json"
Pointer == Str(<<"version", ".json">>)

InfoPackages ==
  {Undefined} \cup
  {MkObj([productName |-> n, version |-> v]) :
     n \in {Undefined, Str(<< >>), S("App")},
     v \in {Undefined, Str(<< >>), S("1.0.0"), Pointer}}

InfoConfigs ==
  {MkObj([package |-> p,
          tauri |-> IF l = Undefined THEN Undefined
                    ELSE MkObj([bundle |-> MkObj([windows |->
                                  MkObj([wix |-> MkObj([language |-> l])])])])]) :
     p \in InfoPackages, l \in {Undefined, S("fr-FR")}}

InfoConfTexts == {Text("json", c) : c \in InfoConfigs} \cup {Text("invalid", Undefined)}

InfoTrees == { << >>, << <<"src-tauri">> >>, << <<"node_modules", "pkg">> >> }

InfoCargoFiles ==
  {Absent, Text("toml", EmptyObj)} \cup
  {Text("toml", MkObj([package |-> MkObj([name |-> n, version |-> v])])) :
     n \in {Undefined, S("crate")}, v \in {Undefined, S("0.0.1")}}

InfoVersionFiles ==
  {Absent, Text("json", EmptyObj), Text("json", MkObj([version |-> S("2.3.4")]))}

InfoPackageFiles ==
  { Absent, Text("invalid", Undefined),
    Text("json", MkObj([name |-> Str(<<"my", " ", "app">>), version |-> S("3.0.0")])),
    Text("json", MkObj([displayName |-> S("Disp"), name |-> S("n"),
                        version |-> S("3.0.0")])),
    Text("json", MkObj([name |-> S("n")])),
    Text("json", MkObj([version |-> S("3.0.0")])),
    Text("json", MkObj([name |-> Str(<< >>), version |-> S("3.0.0")])) }

CiConfig ==
  Text("json", MkObj([package |-> MkObj([productName |-> S("Ci"),
                                         version |-> S("9.9.9")])]))

InitInfo ==
  /\ pc = "call" /\ ret = Pending /\ log = << >>
  /\ tree \in InfoTrees /\ gitignore = Absent
  /\ confFile \in InfoConfTexts
  /\ json5File = Absent
  /\ \E given \in {<<Null, Absent>>, <<S("ci.conf.json"), Absent>>,
                   <<S("ci.conf.json"), CiConfig>>} :
       args = <<given[1]>> /\ inConfFile = given[2]
  /\ cargoFile \in InfoCargoFiles
  /\ versionFile \in InfoVersionFiles
  /\ packageFile \in InfoPackageFiles
  /\ NoLocals /\ NoWalk

CallGetInfo ==
  /\ pc = "call"
  /\ LET r == getInfo(args[1]) IN
       /\ ret' = r.out
       /\ log' = r.reads
  /\ pc' = "done"
  /\ UNCHANGED <<args, fsVars, locals, walkVars>>

NextInfo == CallGetInfo

SpecInfo == InitInfo /\ [][NextInfo]_vars

NonEmpty(v) == v.t = "str" /\ v.s # << >>

Returned == pc = "done" /\ ret.kind = "return"

NativePresent == getTauriDir(tree, gitignore) # Null

PackageJson == IF packageFile = Absent THEN Null ELSE packageFile.val

\* C3: every Info record getInfo returns has a non-empty name and a non-empty
\* version, with a native project present and without one; without one, name is
\* displayName-or-name with spaces replaced by hyphens, or "app" when there is no
\* package.json, and version is the package.json version, or "0.1.0".
C3_InfoNonEmpty ==
  Returned =>
    /\ NonEmpty(ret.val.name)
    /\ NonEmpty(ret.val.version)
    /\ (~NativePresent /\ PackageJson = Null) =>
         ret.val.name = S("app") /\ ret.val.version = S("0.1.0")
    /\ (~NativePresent /\ PackageJson # Null) =>
         /\ ret.val.name =
              HyphenateSpaces(IF Truthy(Get(PackageJson, "displayName"))
                                THEN Get(PackageJson, "displayName")
                                ELSE Get(PackageJson, "name"))
         /\ ret.val.version = IF Get(PackageJson, "version") # Undefined
                                THEN Get(PackageJson, "version")
                                ELSE S("0.1.0")

\* the config getInfo loads, when it loads one
LoadedConfig == IF args[1] # Null THEN inConfFile.val ELSE confFile.val

ConfigLoaded ==
  /\ NativePresent
  /\ IF args[1] # Null THEN inConfFile # Absent /\ inConfFile.fmt = "json"
                       ELSE confFile.fmt = "json"

ConfigName == Get(Get(LoadedConfig, "package"), "productName")

ConfigVersion == Get(Get(LoadedConfig, "package"), "version")

CargoPackage == IF cargoFile = Absent THEN Undefined ELSE Get(cargoFile.val, "package")

ReadsManifest == \E i \in 1..Len(log) : log[i] = "Cargo.toml"

\* C4 as stated: a field NativeConfig sets is what getInfo returns, never the
\* Cargo.toml value, and Cargo.toml is not read when NativeConfig sets both.
C4_ConfigSetFieldKept ==
  (pc = "done" /\ ConfigLoaded) =>
    /\ (ret.kind = "return" /\ ConfigName # Undefined) => ret.val.name = ConfigName
    /\ (ret.kind = "return" /\ ConfigVersion # Undefined) =>
         ret.val.version = ConfigVersion
    /\ (ConfigName # Undefined /\ ConfigVersion # Undefined) => ~ReadsManifest

\* the version NativeConfig gives once the version-as-pointer rule is applied
PointedVersion ==
  IF EndsWith(ConfigVersion, ".json")
    THEN (IF versionFile # Absent /\ versionFile.fmt = "json"
            THEN Get(versionFile.val, "version") ELSE Undefined)
    ELSE ConfigVersion

\* C4 (amended): a field NativeConfig sets to a non-empty value (the version after
\* the version-as-pointer rule) is what getInfo returns and is never replaced by
\* the Cargo.toml value; Cargo.toml fills only a field left unset or empty, and is
\* not read at all when both are non-empty.
C4_NonEmptyConfigFieldKept ==
  (pc = "done" /\ ConfigLoaded) =>
    /\ (ret.kind = "return" /\ Truthy(ConfigName)) => ret.val.name = ConfigName
    /\ (ret.kind = "return" /\ Truthy(PointedVersion)) =>
         ret.val.version = PointedVersion
    /\ (ret.kind = "return" /\ ~Truthy(ConfigName)) =>
         ret.val.name = Get(CargoPackage, "name")
    /\ (ret.kind = "return" /\ ~Truthy(PointedVersion)) =>
         ret.val.version = Get(CargoPackage, "version")
    /\ (Truthy(ConfigName) /\ Truthy(PointedVersion)) => ~ReadsManifest

\* C4's case: NativeConfig sets only the version, Cargo.toml sets both; the result
\* has NativeConfig's version and Cargo.toml's name
C4_Witness ==
  /\ Returned /\ ConfigLoaded
  /\ ConfigName = Undefined /\ ConfigVersion = S("1.0.0")
  /\ Get(CargoPackage, "name") = S("crate")
  /\ Get(CargoPackage, "version") = S("0.0.1")
  /\ ret.val.name = S("crate") /\ ret.val.version = S("1.0.0")

-----------------------------------------------------------------------------
(* utils.ts: extensions, getAssetName.  A path is a sequence of tokens: "/" is  *)
(* path.sep, a token starting with "." is a dot followed by letters, any other  *)
(* token is a run of characters with no dot and no separator.                   *)

extensions ==
  << <<".app", ".tar", ".gz", ".sig">>,
     <<".app", ".tar", ".gz">>,
     <<".dmg">>,
     <<".AppImage", ".tar", ".gz", ".sig">>,
     <<".AppImage", ".tar", ".gz">>,
     <<".AppImage">>,
     <<".deb">>,
     <<".msi", ".zip", ".sig">>,
     <<".msi", ".zip">>,
     <<".msi">> >>

DotTokens ==
  {".app", ".tar", ".gz", ".sig", ".dmg", ".AppImage", ".deb", ".msi", ".zip", ".txt"}

\* s.indexOf(sub) + 1: the first place sub occurs in s, 0 when it does not
IndexOf(s, sub) ==
  LET at == {i \in 1..(Len(s) - Len(sub) + 1) : SubSeq(s, i, i + Len(sub) - 1) = sub}
  IN  IF at = {} THEN 0 ELSE CHOOSE i \in at : \A j \in at : i <= j

\* s.includes(sub)
Includes(s, sub) == IndexOf(s, sub) # 0

\* s.replace(sub, ''): the first occurrence of sub removed
RemoveFirst(s, sub) ==
  LET i == IndexOf(s, sub)
  IN  IF i = 0 THEN s ELSE SubSeq(s, 1, i - 1) \o SubSeq(s, i + Len(sub), Len(s))

\* the path without its trailing separators
RECURSIVE StripTrailingSep(_)
StripTrailingSep(p) ==
  IF Len(p) > 0 /\ p[Len(p)] = "/" THEN StripTrailingSep(SubSeq(p, 1, Len(p) - 1))
  ELSE p

\* path.basename
Basename(p) ==
  LET q == StripTrailingSep(p)
      seps == {i \in 1..Len(q) : q[i] = "/"}
      last == IF seps = {} THEN 0 ELSE CHOOSE i \in seps : \A j \in seps : j <= i
  IN  SubSeq(q, last + 1, Len(q))

\* path.extname: from the last dot of the basename, '' when there is no dot or the
\* basename starts with it
Extname(p) ==
  LET b == Basename(p)
      dots == {i \in 1..Len(b) : b[i] \in DotTokens}
      last == IF dots = {} THEN 0 ELSE CHOOSE i \in dots : \A j \in dots : j <= i
  IN  IF last <= 1 THEN << >> ELSE SubSeq(b, last, Len(b))

AppBundle == {<<".app", ".tar", ".gz", ".sig">>, <<".app", ".tar", ".gz">>}

getAssetName(assetPath) ==
  LET basename == Basename(assetPath)
      exts == SelectSeq(extensions, LAMBDA e : Includes(basename, e))
      ext == IF exts # << >> THEN exts[1] ELSE Extname(assetPath)
      filename == RemoveFirst(basename, ext)
      arch == IF ext \in AppBundle
                THEN (IF Includes(assetPath, <<"universal-apple-darwin">>)
                        THEN <<"_universal">>
                      ELSE IF Includes(assetPath, <<"aarch64-apple-darwin">>)
                        THEN <<"_aarch64">>
                      ELSE <<"_x64">>)
                ELSE << >>
  IN  IF Includes(assetPath, <<"/", "debug", "/">>)
        THEN filename \o <<"-debug">> \o arch \o ext
        ELSE filename \o arch \o ext

-----------------------------------------------------------------------------
(* getAssetName(assetPath) on the artifact paths within the bounds *)

\* longest basename, in tokens
MaxBase == 4

BaseTokens == {"MyApp", ".app", ".tar", ".gz", ".sig", ".deb", ".msi", ".AppImage", ".txt"}

RECURSIVE TokenSeqs(_, _)
TokenSeqs(T, n) ==
  IF n = 0 THEN {<< >>}
  ELSE LET shorter == TokenSeqs(T, n - 1)
       IN  shorter \cup {Append(l, x) : l \in {m \in shorter : Len(m) = n - 1}, x \in T}

AssetDirs ==
  { << >>,
    <<"/", "target", "/", "release", "/">>,
    <<"/", "target", "/", "debug", "/">>,
    <<"/", "target", "/", "aarch64-apple-darwin", "/", "debug", "/">>,
    <<"/", "target", "/", "aarch64-apple-darwin", "/", "release", "/">>,
    <<"/", "target", "/", "universal-apple-darwin", "/", "release", "/">>,
    <<"/", "target", "/", "universal-apple-darwin", "/", "debug", "/">> }

InitAsset ==
  /\ pc = "call" /\ ret = Pending /\ log = << >>
  /\ \E d \in AssetDirs, b \in TokenSeqs(BaseTokens, MaxBase) \ {<< >>} :
       args = <<d \o b>>
  /\ NoTree /\ NoFiles /\ NoLocals /\ NoWalk

CallGetAssetName ==
  /\ pc = "call"
  /\ ret' = Ok(getAssetName(args[1]))
  /\ pc' = "done"
  /\ UNCHANGED <<args, log, fsVars, locals, walkVars>>

NextAsset == CallGetAssetName

SpecAsset == InitAsset /\ [][NextAsset]_vars

\* e is a suffix of b
IsSuffix(e, b) == Len(e) <= Len(b) /\ SubSeq(b, Len(b) - Len(e) + 1, Len(b)) = e

\* the first known suffix the basename ends with, else the filesystem extension
MatchedSuffix(p) ==
  LET known == SelectSeq(extensions, LAMBDA e : IsSuffix(e, Basename(p)))
  IN  IF known # << >> THEN known[1] ELSE Extname(p)

\* the basename with the matched suffix stripped
Stem(p) == SubSeq(Basename(p), 1, Len(Basename(p)) - Len(MatchedSuffix(p)))

HasDebugSegment(p) ==
  \E i \in 1..Len(p) : /\ p[i] = "debug"
                        /\ i < Len(p) /\ p[i + 1] = "/"
                        /\ (i = 1 \/ p[i - 1] = "/")

ArchTag(p) ==
  IF MatchedSuffix(p) \notin AppBundle THEN << >>
  ELSE IF Includes(p, <<"universal-apple-darwin">>) THEN <<"_universal">>
  ELSE IF Includes(p, <<"aarch64-apple-darwin">>) THEN <<"_aarch64">>
  ELSE <<"_x64">>

\* C7: getAssetName returns stem + [-debug] + [archTag] + suffix, the suffix being
\* the first known suffix the basename ends with (else the filesystem extension) and
\* the stem the basename with that suffix stripped; so a path with no debug segment
\* and a suffix that is not an app bundle's gives its basename unchanged.
C7_StemDebugArchSuffix ==
  pc = "done" =>
    /\ ret.val = Stem(args[1])
                   \o (IF HasDebugSegment(args[1]) THEN <<"-debug">> ELSE << >>)
                   \o ArchTag(args[1]) \o MatchedSuffix(args[1])
    /\ (~HasDebugSegment(args[1]) /\ MatchedSuffix(args[1]) \notin AppBundle) =>
         ret.val = Basename(args[1])

-----------------------------------------------------------------------------
(* init-project.ts: initProject.  The function runs in three stretches, split   *)
(* by its two awaits; the external command runs between them.                   *)

CommandFailed(name) == <<"ExecaError", name>>

\* mutant: a failed command does not stop the function
AwaitMutSwallow(status, name) == Pending

\* lines 17-23, 70-78, utils.ts 136-148: await execCommand(...) rejects when the
\* command exits with a non-zero status; Pending means the function goes on
Await(status, name) == IF status = "failed" THEN Throw(CommandFailed(name)) ELSE Pending

\* mutant: the whole bundle section is replaced
MergeBundleMutReplace(config, bundleIdentifier) ==
  SpreadSet(Get(config, "tauri"), "bundle", MkObj([identifier |-> bundleIdentifier]))

\* lines 51-57: { ...config.tauri, bundle: { ...config.tauri?.bundle, identifier } }
MergeBundle(config, bundleIdentifier) ==
  SpreadSet(Get(config, "tauri"), "bundle",
            SpreadSet(Get(Get(config, "tauri"), "bundle"), "identifier", bundleIdentifier))

\* lines 35-45: { ...config.package, version }, productName from package.json
MergePackage(config, packageJson, info) ==
  LET pkgConfig == SpreadSet(Get(config, "package"), "version", info.version)
  IN  IF Truthy(Get(packageJson, "productName"))
        THEN Assign(pkgConfig, "productName", Get(packageJson, "productName"))
        ELSE pkgConfig

\* lines 35-58: the config as rewritten
MergeConfig(config, packageJson, info, bundleIdentifier) ==
  LET withPackage == Assign(config, "package", MergePackage(config, packageJson, info))
  IN  IF Truthy(bundleIdentifier)
        THEN Assign(withPackage, "tauri", MergeBundle(withPackage, bundleIdentifier))
        ELSE withPackage

Application(tauriPath, runner, info) ==
  [tauriPath |-> tauriPath, runner |-> runner, name |-> info.name,
   version |-> info.version, wixLanguage |-> info.wixLanguage]

\* lines 14-23: packageJson and tauriPath are taken, then the init command is started
Begin ==
  /\ pc = "start"
  /\ LET packageJson == getPackageJson(packageFile)
         reads == IF existsSync(packageFile) THEN <<"package.json">> ELSE << >>
     IN  IF packageJson.kind = "throw"
           THEN /\ ret' = packageJson
                /\ pc' = "done"
                /\ log' = log \o reads
                /\ UNCHANGED locals
           ELSE /\ locals' = [packageJson |-> packageJson.val,
                              tauriPath |-> getTauriDir(tree, gitignore),
                              status |-> "running",
                              app |-> Undefined]
                /\ log' = log \o reads \o <<"run:init">>
                /\ pc' = "init"
                /\ UNCHANGED ret
  /\ UNCHANGED <<args, fsVars, walkVars>>

\* what `tauri init --ci` writes
InitTemplate ==
  Text("json", MkObj([package |-> MkObj([productName |-> S("app"), version |-> S("0.0.0")]),
                      tauri |-> MkObj([bundle |-> MkObj([identifier |-> S("com.tauri.dev")])])]))

SrcTauri == <<"src-tauri">>

InTree(d) == \E i \in 1..Len(tree) : tree[i] = d

\* the init command exits: with status 0, having created src-tauri when there was
\* none or having left the tree as it was, or with a non-zero status
InitExits ==
  /\ pc = "init"
  /\ \E status \in {"ok", "failed"}, creates \in BOOLEAN :
       /\ creates => (status = "ok" /\ ~InTree(SrcTauri))
       /\ locals' = [locals EXCEPT !.status = status]
       /\ log' = Append(log, IF status = "ok" THEN "ok:init" ELSE "failed:init")
       /\ IF creates
            THEN tree' = Append(tree, SrcTauri) /\ confFile' = InitTemplate
            ELSE UNCHANGED <<tree, confFile>>
  /\ pc' = "afterInit"
  /\ UNCHANGED <<args, ret, gitignore, json5File, inConfFile, cargoFile, versionFile,
                 packageFile, walkVars>>

\* lines 25-78: from the first await to the second, or to the return
AfterInit ==
  /\ pc = "afterInit"
  /\ LET awaited == Await(locals.status, "init")
         loaded == getConfig(confFile, "tauri.conf.json", json5File)
     IN
     IF awaited.kind = "throw"
       THEN /\ ret' = awaited /\ pc' = "done"
            /\ UNCHANGED <<log, locals, confFile>>
     ELSE IF locals.tauriPath = Null
       THEN /\ ret' = Exit(1) /\ pc' = "done"
            /\ UNCHANGED <<log, locals, confFile>>
     ELSE IF loaded.out.kind = "throw"
       THEN /\ ret' = loaded.out /\ pc' = "done"
            /\ log' = log \o loaded.reads
            /\ UNCHANGED <<locals, confFile>>
     ELSE IF loaded.out.val.t # "obj"
       THEN /\ ret' = Throw(TypeError) /\ pc' = "done"
            /\ log' = log \o loaded.reads
            /\ UNCHANGED <<locals, confFile>>
     ELSE
       LET config == MergeConfig(loaded.out.val, locals.packageJson, args.info,
                                 args.bundleIdentifier)
           app == Application(locals.tauriPath, args.runner, args.info)
       IN
       /\ confFile' = JSONstringify(config)
       /\ IF Truthy(args.iconPath)
            THEN /\ log' = log \o loaded.reads \o <<"write:tauri.conf.json", "run:icon">>
                 /\ locals' = [locals EXCEPT !.app = app, !.status = "running"]
                 /\ pc' = "icon"
                 /\ UNCHANGED ret
            ELSE /\ log' = log \o loaded.reads \o <<"write:tauri.conf.json">>
                 /\ ret' = Ok(app)
                 /\ pc' = "done"
                 /\ UNCHANGED locals
  /\ UNCHANGED <<args, tree, gitignore, json5File, inConfFile, cargoFile, versionFile,
                 packageFile, walkVars>>

\* the icon command exits
IconExits ==
  /\ pc = "icon"
  /\ \E status \in {"ok", "failed"} :
       /\ locals' = [locals EXCEPT !.status = status]
       /\ log' = Append(log, IF status = "ok" THEN "ok:icon" ELSE "failed:icon")
  /\ pc' = "afterIcon"
  /\ UNCHANGED <<args, ret, fsVars, walkVars>>

\* lines 70-80: after the second await
AfterIcon ==
  /\ pc = "afterIcon"
  /\ LET awaited == Await(locals.status, "icon")
     IN  ret' = IF awaited.kind = "throw" THEN awaited ELSE Ok(locals.app)
  /\ pc' = "done"
  /\ UNCHANGED <<args, log, locals, fsVars, walkVars>>

-----------------------------------------------------------------------------
(* initProject(root, runner, info, options) on the projects within the bounds *)

WixSection == MkObj([wix |-> MkObj([language |-> S("fr-FR")])])

InitPackages ==
  {Undefined} \cup
  {MkObj([productName |-> n, version |-> v, extra |-> x]) :
     n \in {Undefined, S("App")}, v \in {Undefined, S("0.0.0")},
     x \in {Undefined, S("x")}}

InitBundles ==
  {Undefined} \cup
  {MkObj([identifier |-> i, windows |-> w]) :
     i \in {Undefined, S("com.old")}, w \in {Undefined, WixSection}}

InitTauris ==
  {Undefined} \cup
  {MkObj([bundle |-> b, allowlist |-> a]) : b \in InitBundles, a \in {Undefined, S("all")}}

InitConfigs ==
  {MkObj([package |-> p, tauri |-> t, build |-> b]) :
     p \in InitPackages, t \in InitTauris, b \in {Undefined, S("dist")}}

Json5Sample == MkObj([package |-> MkObj([extra |-> S("x")]),
                      tauri |-> MkObj([bundle |-> MkObj([windows |-> WixSection])])])

\* the files of src-tauri: a tauri.conf.json that is strict JSON, or JSON5 only, or
\* invalid with or without a JSON5 sibling
InitConfFiles ==
  {<<Text("json", c), Absent>> : c \in InitConfigs}
    \cup {<<Text("json5", Json5Sample), Absent>>,
          <<Text("invalid", Undefined), Absent>>,
          <<Text("invalid", Undefined), Text("json5", Json5Sample)>>}

InitPackageFiles ==
  {Absent, Text("json", MkObj([name |-> S("n")])),
   Text("json", MkObj([name |-> S("n"), productName |-> S("Product")]))}

InitProject ==
  /\ pc = "start" /\ ret = Pending /\ log = << >>
  /\ \E v \in {S("1.0.0"), Undefined}, icon \in {Null, S("icon.png")},
        id \in {Null, Str(<< >>), S("com.new")} :
       args = [runner |-> "tauri",
               info |-> Info(Null, S("app"), v, S("en-US")),
               iconPath |-> icon, bundleIdentifier |-> id]
  /\ gitignore = Absent
  /\ \/ /\ tree \in {<< >>, << <<"node_modules", "pkg">> >>}
        /\ confFile = Absent /\ json5File = Absent
     \/ /\ tree = <<SrcTauri>>
        /\ \E f \in InitConfFiles : confFile = f[1] /\ json5File = f[2]
  /\ packageFile \in InitPackageFiles
  /\ inConfFile = Absent /\ cargoFile = Absent /\ versionFile = Absent
  /\ NoLocals /\ NoWalk

NextInit == Begin \/ InitExits \/ AfterInit \/ IconExits \/ AfterIcon

SpecInit == InitProject /\ [][NextInit]_vars

Logged(entry) == \E i \in 1..Len(log) : log[i] = entry

\* C1: initProject ends fatally for a missing native-project directory only when
\* none exists once the init command has finished; a directory the init command
\* has just created is used.
C1_ResolvedAfterInit ==
  (pc = "done" /\ ret.kind = "exit") => getTauriDir(tree, gitignore) = Null

\* C5: once the init command has failed, tauri.conf.json is neither read nor
\* rewritten, the icon command is never invoked and no Application is returned;
\* once the icon command has failed, no Application is returned.
C5_FailedCommandAborts ==
  /\ Logged("failed:init") =>
       /\ ~Logged("tauri.conf.json") /\ ~Logged("tauri.conf.json5")
       /\ ~Logged("write:tauri.conf.json")
       /\ ~Logged("run:icon")
       /\ ret.kind # "return"
       /\ pc \in {"afterInit", "done"}
  /\ Logged("failed:icon") => ret.kind # "return" /\ pc \in {"afterIcon", "done"}
  /\ pc = "done" /\ (Logged("failed:init") \/ Logged("failed:icon")) => ret.kind = "throw"

\* C5's case: the init command has failed and the function has ended
C5_Witness ==
  /\ pc = "done" /\ Logged("failed:init") /\ ret = Throw(CommandFailed("init"))
  /\ tree = <<SrcTauri>> /\ confFile.fmt = "json"

\* C5's second case: the icon command has failed after the rewrite
C5_WitnessIcon ==
  pc = "done" /\ Logged("failed:icon") /\ Logged("write:tauri.conf.json")

\* the config initProject loads: tauri.conf.json's, or the JSON5 sibling's
Loadable(conf, sibling) ==
  conf.fmt \in {"json", "json5"} \/ (sibling # Absent /\ sibling.fmt \in {"json", "json5"})

Loaded(conf, sibling) == IF conf.fmt \in {"json", "json5"} THEN conf.val ELSE sibling.val

SameExcept(old, new, keys) ==
  \A k \in ((IF old.t = "obj" THEN DOMAIN old.o ELSE {})
              \cup (IF new.t = "obj" THEN DOMAIN new.o ELSE {})) \ keys :
     Get(new, k) = Get(old, k)

\* the rewrite's frame: old is the config loaded, new the config written
Frame(old, new) ==
  /\ SameExcept(old, new, {"package", "tauri"})
  /\ SameExcept(Get(old, "package"), Get(new, "package"), {"version", "productName"})
  /\ Get(Get(new, "package"), "version") = args.info.version
  /\ Get(Get(new, "package"), "productName") =
       IF Truthy(Get(locals.packageJson, "productName"))
         THEN Get(locals.packageJson, "productName")
         ELSE Get(Get(old, "package"), "productName")
  /\ IF Truthy(args.bundleIdentifier)
       THEN /\ SameExcept(Get(old, "tauri"), Get(new, "tauri"), {"bundle"})
            /\ SameExcept(Get(Get(old, "tauri"), "bundle"),
                          Get(Get(new, "tauri"), "bundle"), {"identifier"})
            /\ Get(Get(Get(new, "tauri"), "bundle"), "identifier") = args.bundleIdentifier
       ELSE Get(new, "tauri") = Get(old, "tauri")

\* C6: the rewrite changes only package.version (to Info.version), package.productName
\* (when package.json declares one) and the bundle identifier (when the option is
\* supplied); every other field of the loaded config, the other bundle sub-fields
\* and unknown fields included, is written back unchanged, and without the option
\* the bundle section is unchanged.
C6_RewriteFrame ==
  [][(pc = "afterInit" /\ pc' # "afterInit" /\ Logged("write:tauri.conf.json")')
       => /\ Loadable(confFile, json5File)
          /\ confFile'.fmt = "json"
          /\ Frame(Loaded(confFile, json5File), confFile'.val)]_vars

\* C6's case: an identifier-only update of a config whose bundle already has
\* windows.wix.language, which survives beside unknown fields
C6_Witness ==
  /\ pc = "done" /\ ret.kind = "return" /\ Logged("write:tauri.conf.json")
  /\ args.bundleIdentifier = S("com.new")
  /\ Get(Get(Get(confFile.val, "tauri"), "bundle"), "identifier") = S("com.new")
  /\ Get(Get(Get(confFile.val, "tauri"), "bundle"), "windows") = WixSection
  /\ Get(Get(confFile.val, "tauri"), "allowlist") = S("all")
  /\ Get(confFile.val, "build") = S("dist")
  /\ Get(Get(confFile.val, "package"), "extra") = S("x")

-----------------------------------------------------------------------------
(* path: join, normalize, resolve on token sequences ("/" is path.sep) *)

\* the segments of a path: its tokens other than separators
Segments(p) == SelectSeq(p, LAMBDA x : x # "/")

IsAbsolute(p) == Len(p) > 0 /\ p[1] = "/"

EndsWithSep(p) == Len(p) > 0 /\ p[Len(p)] = "/"

\* normalizeString: "." dropped, ".." pops a segment, or is kept above a relative start
RECURSIVE NormalizeSegs(_, _, _)
NormalizeSegs(segs, done, allowAboveRoot) ==
  IF segs = << >> THEN done
  ELSE LET x == Head(segs) IN
       NormalizeSegs(Tail(segs),
         IF x = "." THEN done
         ELSE IF x = ".."
           THEN (IF Len(done) > 0 /\ done[Len(done)] # ".."
                   THEN SubSeq(done, 1, Len(done) - 1)
                 ELSE IF allowAboveRoot THEN Append(done, "..")
                 ELSE done)
         ELSE Append(done, x),
         allowAboveRoot)

\* segments joined by separators
RECURSIVE Unsplit(_)
Unsplit(segs) ==
  IF Len(segs) <= 1 THEN segs
  ELSE <<Head(segs), "/">> \o Unsplit(Tail(segs))

\* path.normalize
normalize(p) ==
  IF p = << >> THEN <<".">>
  ELSE
    LET segs == NormalizeSegs(Segments(p), << >>, ~IsAbsolute(p))
        body == Unsplit(segs)
    IN  IF IsAbsolute(p)
          THEN <<"/">> \o body \o (IF segs # << >> /\ EndsWithSep(p) THEN <<"/">> ELSE << >>)
        ELSE IF segs = << >> THEN (IF EndsWithSep(p) THEN <<".", "/">> ELSE <<".">>)
        ELSE body \o (IF EndsWithSep(p) THEN <<"/">> ELSE << >>)

\* path.join(a, b): empty arguments are skipped
join(a, b) ==
  IF a = << >> THEN normalize(b)
  ELSE IF b = << >> THEN normalize(a)
  ELSE normalize(a \o <<"/">> \o b)

\* process.cwd(), taken to be the root: the nearest a relative walk can start to it
Cwd == <<"/">>

\* path.resolve(a, b) for a relative b: absolute, normalized, no trailing separator
resolve(a, b) ==
  LET from == IF IsAbsolute(a) THEN a ELSE Cwd \o <<"/">> \o a
  IN  <<"/">> \o Unsplit(NormalizeSegs(Segments(from \o <<"/">> \o b), << >>, FALSE))

\* how deep below the filesystem root the directory a path names lies
Depth(p) == Len(Segments(resolve(p, << >>)))

-----------------------------------------------------------------------------
(* utils.ts: getWorkspaceDir, getTargetDir.  One action per loop iteration. *)

\* the Cargo files of the directory a path names: levels is indexed by depth
At(p) == levels[Depth(p)]

\* mutant: the environment is not consulted before the walk
InEnvMutNever(e) == FALSE

\* line 96: 'CARGO_TARGET_DIR' in process.env
InEnv(e) == e # Undefined

\* lines 75, 100: while (dir.length && dir[dir.length - 1] !== sep)
LoopCondition(d) == Len(d) > 0 /\ d[Len(d)] # "/"

\* lines 101-105: the config file consulted in a directory
CargoConfigAt(p) == IF existsSync(At(p).config) THEN At(p).config ELSE At(p).configToml

\* longest walk followed; a walk that reaches it has not ended
MaxSteps == 6

EnterTargetDir ==
  /\ pc = "start" /\ args.fn = "getTargetDir"
  /\ IF InEnv(env)
       THEN ret' = Ok(env) /\ pc' = "done" /\ UNCHANGED dir
       ELSE dir' = args.dir /\ pc' = "loop" /\ UNCHANGED ret
  /\ UNCHANGED <<args, log, fsVars, locals, env, levels, steps>>

TargetDirStep ==
  /\ pc = "loop" /\ args.fn = "getTargetDir"
  /\ steps < MaxSteps
  /\ IF LoopCondition(dir)
       THEN LET cargoConfigPath == CargoConfigAt(dir)
                found == existsSync(cargoConfigPath)
                           /\ Truthy(Get(Get(cargoConfigPath.val, "build"), "target-dir"))
            IN  /\ steps' = steps + 1
                /\ IF found
                     THEN /\ ret' = Ok(Get(Get(cargoConfigPath.val, "build"), "target-dir"))
                          /\ pc' = "done"
                          /\ UNCHANGED dir
                     ELSE /\ dir' = normalize(join(dir, <<"..">>))
                          /\ UNCHANGED <<ret, pc>>
       ELSE /\ ret' = Ok(Str(join(args.dir, <<"target">>)))
            /\ pc' = "done"
            /\ UNCHANGED <<dir, steps>>
  /\ UNCHANGED <<args, log, fsVars, locals, env, levels>>

EnterWorkspaceDir ==
  /\ pc = "start" /\ args.fn = "getWorkspaceDir"
  /\ dir' = args.dir
  /\ pc' = "loop"
  /\ UNCHANGED <<args, ret, log, fsVars, locals, env, levels, steps>>

WorkspaceDirStep ==
  /\ pc = "loop" /\ args.fn = "getWorkspaceDir"
  /\ steps < MaxSteps
  /\ IF LoopCondition(dir)
       THEN LET manifest == At(dir).manifest
                members == Get(Get(manifest.val, "workspace"), "members")
                found == /\ existsSync(manifest)
                         /\ members # Undefined
                         /\ \E i \in 1..Len(members.items) :
                              resolve(dir, members.items[i]) = args.dir
            IN  /\ steps' = steps + 1
                /\ IF found
                     THEN ret' = Ok(Str(dir)) /\ pc' = "done" /\ UNCHANGED dir
                     ELSE dir' = normalize(join(dir, <<"..">>)) /\ UNCHANGED <<ret, pc>>
       ELSE /\ ret' = Ok(Null)
            /\ pc' = "done"
            /\ UNCHANGED <<dir, steps>>
  /\ UNCHANGED <<args, log, fsVars, locals, env, levels>>

-----------------------------------------------------------------------------
(* getTargetDir(crateDir) and getWorkspaceDir(dir) on the directories within the *)
(* bounds: /a/b/... and a/b/..., with and without a trailing separator           *)

\* deepest starting directory
MaxDepth == 2

Chain == <<"a", "b", "c", "d">>

AbsDir(n) == <<"/">> \o Unsplit(SubSeq(Chain, 1, n))

RelDir(n) == Unsplit(SubSeq(Chain, 1, n))

StartDirs ==
  {AbsDir(n) : n \in 0..MaxDepth} \cup {RelDir(n) : n \in 0..MaxDepth}
    \cup {AbsDir(n) \o <<"/">> : n \in 1..MaxDepth}
    \cup {RelDir(n) \o <<"/">> : n \in 1..MaxDepth}
    \cup {<<".">>}

Arr(items) == [t |-> "arr", items |-> items]

\* a Cargo config giving build.target-dir, told apart by file and depth
WithTarget(file, k) ==
  Text("toml", MkObj([build |-> MkObj("target-dir" :> Str(<<file, ToString(k)>>))]))

ConfigShapes == {"absent", "plain", "target"}

ConfigOf(shape, file, k) ==
  CASE shape = "absent" -> Absent
    [] shape = "plain" -> Text("toml", EmptyObj)
    [] shape = "target" -> WithTarget(file, k)

ManifestShapes == {"absent", "plain", "lists-b", "lists-a-b", "lists-dot"}

ManifestOf(shape) ==
  CASE shape = "absent" -> Absent
    [] shape = "plain" -> Text("toml", MkObj([package |-> MkObj([name |-> S("crate")])]))
    [] shape = "lists-b" ->
         Text("toml", MkObj([workspace |-> MkObj([members |-> Arr(<< <<"b">> >>)])]))
    [] shape = "lists-a-b" ->
         Text("toml", MkObj([workspace |->
                MkObj([members |-> Arr(<< <<"x">>, <<"a", "/", "b">> >>)])]))
    [] shape = "lists-dot" ->
         Text("toml", MkObj([workspace |-> MkObj([members |-> Arr(<< <<".">> >>)])]))

EnvValues == {Undefined, Str(<< >>), Str(<<"/", "env-target">>)}

InitWalk ==
  /\ pc = "start" /\ ret = Pending /\ log = << >>
  /\ steps = 0 /\ dir = << >>
  /\ \/ /\ \E d \in StartDirs : args = [fn |-> "getTargetDir", dir |-> d]
        /\ env \in EnvValues
        /\ \E c \in [0..MaxDepth -> ConfigShapes], t \in [0..MaxDepth -> {"absent", "target"}] :
             levels = [k \in 0..MaxDepth |->
                         [config |-> ConfigOf(c[k], "config", k),
                          configToml |-> ConfigOf(t[k], "config.toml", k),
                          manifest |-> Absent]]
     \/ /\ \E d \in StartDirs : args = [fn |-> "getWorkspaceDir", dir |-> d]
        /\ env = Undefined
        /\ \E m \in [0..MaxDepth -> ManifestShapes] :
             levels = [k \in 0..MaxDepth |->
                         [config |-> Absent, configToml |-> Absent,
                          manifest |-> ManifestOf(m[k])]]
  /\ NoTree /\ NoFiles /\ NoLocals

NextWalk == EnterTargetDir \/ TargetDirStep \/ EnterWorkspaceDir \/ WorkspaceDirStep

SpecWalk == InitWalk /\ [][NextWalk]_vars

\* the depths of the directories the walk from a starting directory looks into:
\* none when it is empty or ends with a separator; the directory and its ancestors
\* below the root when it is absolute; down to the working directory otherwise
WalkDepths(start) ==
  IF start = << >> \/ EndsWithSep(start) THEN {}
  ELSE IF IsAbsolute(start) THEN 1..Depth(start)
  ELSE 0..Depth(start)

\* the build.target-dir the Cargo config of depth k gives: .cargo/config's when that
\* file exists, else .cargo/config.toml's
TargetDirAt(k) ==
  LET file == IF levels[k].config # Absent THEN levels[k].config ELSE levels[k].configToml
  IN  IF file = Absent THEN Undefined ELSE Get(Get(file.val, "build"), "target-dir")

\* the first one found walking up from crateDir
WalkTargetDir ==
  LET having == {k \in WalkDepths(args.dir) : TargetDirAt(k) # Undefined}
  IN  IF having = {} THEN Undefined
      ELSE TargetDirAt(CHOOSE k \in having : \A j \in having : j <= k)

DefaultTargetDir == Str(join(args.dir, <<"target">>))

TargetDirReturned == pc = "done" /\ args.fn = "getTargetDir"

\* C9 as stated: a build.target-dir found on the upward walk is used first, the
\* environment's CARGO_TARGET_DIR only when there is none, and <crateDir>/target
\* only when there is neither.
C9_ConfigThenEnvThenDefault ==
  TargetDirReturned =>
    ret.val = IF WalkTargetDir # Undefined THEN WalkTargetDir
              ELSE IF env # Undefined THEN env
              ELSE DefaultTargetDir

\* C9 (amended): CARGO_TARGET_DIR is used first whenever the environment has it; a
\* build.target-dir found on the upward walk only when it has not; <crateDir>/target
\* only when there is neither.
C9_EnvThenConfigThenDefault ==
  TargetDirReturned =>
    ret.val = IF env # Undefined THEN env
              ELSE IF WalkTargetDir # Undefined THEN WalkTargetDir
              ELSE DefaultTargetDir

\* C9's case: the environment and a Cargo config on the walk both name a directory
C9_Witness ==
  /\ TargetDirReturned
  /\ env = Str(<<"/", "env-target">>)
  /\ WalkTargetDir # Undefined
  /\ ret.val = env

\* C9's other cases: the walk's value without the environment's, and the default
C9_WitnessWalk ==
  /\ TargetDirReturned /\ env = Undefined /\ steps = 2
  /\ ret.val = TargetDirAt(1) /\ args.dir = AbsDir(2)

\* C10: the upward walks end for every starting directory, absolute or relative,
\* with or without a trailing separator: every iteration that does not return moves
\* to the parent directory, one level nearer the filesystem root, where the walk stops.
C10_EachStepMovesUp ==
  [][(pc = "loop" /\ pc' = "loop" /\ steps' = steps + 1)
       => Depth(dir') < Depth(dir)]_vars

====
